---- MODULE Spec2Model ----
(***************************************************************************)
(* Model of the Sprout diff parser (src/src/utils/diff_parser.py) and of   *)
(* the GitHandler change source (src/src/core/git_handler.py).             *)
(*                                                                         *)
(* Text is modelled as TLA+ strings, character by character: the regular   *)
(* expressions, str.split, str.strip and str.startswith of the source are  *)
(* operators over the characters of the string.                            *)
(***************************************************************************)
EXTENDS Integers, Sequences, FiniteSets, TLC

VARIABLES
    diff_text,      \* the argument handed to parse_diff / get_summary
    parsed_files,   \* the list returned by the last parse_diff(diff_text)
    summary,        \* the string returned by the last get_summary(diff_text)
    called,         \* which of parse_diff / get_summary have returned
    git_staged,     \* what `git diff --cached` prints in the working tree
    git_unstaged,   \* what `git diff` prints in the working tree
    is_repo,        \* whether repo_path is inside a git repository
    repo,           \* GitHandler.repo: "None" or "Repo"
    staged,         \* local `staged` of the last get_all_changes
    unstaged,       \* local `unstaged` of the last get_all_changes
    ret             \* outcome of the last GitHandler call

vars == <<diff_text, parsed_files, summary, called, git_staged, git_unstaged,
          is_repo, repo, staged, unstaged, ret>>

parser_vars == <<diff_text, parsed_files, summary, called>>
git_vars == <<git_staged, git_unstaged, is_repo, repo, staged, unstaged, ret>>

----------------------------------------------------------------------------
(* Bounds of the model *)

MaxLines == 3        \* lines of an input text handed to the parser
MaxSections == 2     \* file sections in one output of `git diff`

----------------------------------------------------------------------------
(* Python string primitives *)

Min(S) == CHOOSE m \in S : \A n \in S : m <= n
Max(S) == CHOOSE m \in S : \A n \in S : m >= n

Ch(s, i) == SubSeq(s, i, i)

\* the characters str.strip() removes and the regex class \s matches
Whitespace == {" ", "\t", "\n", "\r", "\f"}

IsSpace(c) == c \in Whitespace

\* str.strip()
strip(s) ==
    LET keep == {i \in 1..Len(s) : ~IsSpace(Ch(s, i))}
    IN  IF keep = {} THEN "" ELSE SubSeq(s, Min(keep), Max(keep))

\* str.startswith(prefix)
startswith(s, prefix) ==
    Len(s) >= Len(prefix) /\ SubSeq(s, 1, Len(prefix)) = prefix

\* index of the first occurrence of pat in s, 0 when there is none
find(s, pat) ==
    LET hits == {i \in 1..(Len(s) - Len(pat) + 1) :
                    SubSeq(s, i, i + Len(pat) - 1) = pat}
    IN  IF hits = {} THEN 0 ELSE Min(hits)

\* s.split(sep) and re.split of a literal pattern: cut at every
\* non-overlapping occurrence of sep, left to right
RECURSIVE split(_, _)
split(s, sep) ==
    LET i == find(s, sep)
    IN  IF i = 0 THEN <<s>>
        ELSE <<SubSeq(s, 1, i - 1)>> \o split(SubSeq(s, i + Len(sep), Len(s)), sep)

\* decimal rendering of a non-negative integer inside an f-string
RECURSIVE str(_)
str(n) ==
    IF n < 10 THEN SubSeq("0123456789", n + 1, n + 1)
    ELSE str(n \div 10) \o SubSeq("0123456789", (n % 10) + 1, (n % 10) + 1)

----------------------------------------------------------------------------
(* DiffParser *)

NoMatch == [matched |-> FALSE, group |-> ""]

\* re.search(r'a/(.*?)\s+b/', file_diff): leftmost start, then the shortest
\* capture free of newlines that is followed by whitespace and "b/"
search_header(file_diff) ==
    LET n == Len(file_diff)
        Ends(i) == {j \in (i + 2)..n :
                      /\ \A m \in (i + 2)..(j - 1) : Ch(file_diff, m) # "\n"
                      /\ \E k \in (j + 1)..(n - 1) :
                            /\ \A m \in j..(k - 1) : IsSpace(Ch(file_diff, m))
                            /\ SubSeq(file_diff, k, k + 1) = "b/"}
        starts == {i \in 1..(n - 1) :
                      SubSeq(file_diff, i, i + 1) = "a/" /\ Ends(i) # {}}
    IN  IF starts = {} THEN NoMatch
        ELSE LET i == Min(starts)
             IN  [matched |-> TRUE,
                  group |-> SubSeq(file_diff, i + 2, Min(Ends(i)) - 1)]

\* re.search(r'\+\+\+ b/(.*)', file_diff): leftmost "+++ b/", capture to the
\* end of that line
search_marker(file_diff) ==
    LET i == find(file_diff, "+++ b/")
    IN  IF i = 0 THEN NoMatch
        ELSE LET rest == SubSeq(file_diff, i + 6, Len(file_diff))
                 nl == find(rest, "\n")
             IN  [matched |-> TRUE,
                  group |-> IF nl = 0 THEN rest ELSE SubSeq(rest, 1, nl - 1)]

extract_file_path(file_diff) ==
    LET m1 == search_header(file_diff)
        m2 == search_marker(file_diff)
    IN  IF m1.matched THEN m1.group
        ELSE IF m2.matched THEN strip(m2.group)
        ELSE ""

\* classify_line with the "+" test ahead of the "+++" file-marker test
classify_line_plus_first(line, acc) ==
    IF startswith(line, "---") THEN acc
    ELSE IF startswith(line, "@@") THEN acc
    ELSE IF startswith(line, "+")
         THEN [acc EXCEPT !.additions = Append(@, strip(Tail(line)))]
    ELSE IF startswith(line, "-")
         THEN [acc EXCEPT !.deletions = Append(@, strip(Tail(line)))]
    ELSE acc

\* one iteration of the loop over lines in _extract_changes
classify_line(line, acc) ==
    IF startswith(line, "+++") \/ startswith(line, "---") THEN acc
    ELSE IF startswith(line, "@@") THEN acc
    ELSE IF startswith(line, "+")
         THEN [acc EXCEPT !.additions = Append(@, strip(Tail(line)))]
    ELSE IF startswith(line, "-")
         THEN [acc EXCEPT !.deletions = Append(@, strip(Tail(line)))]
    ELSE acc

RECURSIVE changes_loop(_, _, _)
changes_loop(lines, k, acc) ==
    IF k > Len(lines) THEN acc
    ELSE changes_loop(lines, k + 1, classify_line(lines[k], acc))

extract_changes(file_diff) ==
    changes_loop(split(file_diff, "\n"), 1,
                 [additions |-> <<>>, deletions |-> <<>>])

\* file_record with the summary written from the number of changed lines
file_record_total(file_path, additions, deletions) ==
    [file_path |-> file_path,
     additions |-> additions,
     deletions |-> deletions,
     addition_count |-> Len(additions),
     deletion_count |-> Len(deletions),
     change_summary |-> "+" \o str(Len(additions) + Len(deletions))
                        \o ", -" \o str(Len(deletions))]

\* the dictionary appended to parsed_files for one section
file_record(file_path, additions, deletions) ==
    [file_path |-> file_path,
     additions |-> additions,
     deletions |-> deletions,
     addition_count |-> Len(additions),
     deletion_count |-> Len(deletions),
     change_summary |-> "+" \o str(Len(additions)) \o ", -" \o str(Len(deletions))]

\* emits that also drops a chunk without added or deleted lines
emits_changed_only(file_diff) ==
    /\ strip(file_diff) # "" /\ extract_file_path(file_diff) # ""
    /\ \/ extract_changes(file_diff).additions # <<>>
       \/ extract_changes(file_diff).deletions # <<>>

\* whether the loop of parse_diff appends a record for this chunk
emits(file_diff) ==
    strip(file_diff) # "" /\ extract_file_path(file_diff) # ""

RECURSIVE files_loop(_, _, _)
files_loop(file_diffs, k, out) ==
    IF k > Len(file_diffs) THEN out
    ELSE LET file_diff == file_diffs[k]
             ch == extract_changes(file_diff)
         IN  files_loop(file_diffs, k + 1,
                 IF emits(file_diff)
                 THEN Append(out, file_record(extract_file_path(file_diff),
                                              ch.additions, ch.deletions))
                 ELSE out)

parse_diff(text) ==
    IF text = "" \/ strip(text) = "" THEN <<>>
    ELSE files_loop(split(text, "\ndiff --git"), 1, <<>>)

RECURSIVE sum_field(_, _)
sum_field(parsed, f) ==
    IF parsed = <<>> THEN 0 ELSE parsed[1][f] + sum_field(Tail(parsed), f)

\* get_summary that counts the chunks of the text instead of the records
get_summary_chunks(text) ==
    LET parsed == parse_diff(text)
    IN  IF parsed = <<>> THEN "No changes detected"
        ELSE str(Len(split(text, "\ndiff --git"))) \o " file(s) changed: "
             \o str(sum_field(parsed, "addition_count")) \o " addition(s), "
             \o str(sum_field(parsed, "deletion_count")) \o " deletion(s)"

get_summary(text) ==
    LET parsed == parse_diff(text)
    IN  IF parsed = <<>> THEN "No changes detected"
        ELSE str(Len(parsed)) \o " file(s) changed: "
             \o str(sum_field(parsed, "addition_count")) \o " addition(s), "
             \o str(sum_field(parsed, "deletion_count")) \o " deletion(s)"

----------------------------------------------------------------------------
(* GitHandler *)

\* the value a GitHandler method hands back: a string, None, or an exception
\* (kind, val); op names the method and arg the condition it ran under
Returned(text) == [kind |-> "str", val |-> text]
ReturnedNone == [kind |-> "None", val |-> ""]
Raised(exc) == [kind |-> "raise", val |-> exc]
Outcome(op, arg, r) == [op |-> op, arg |-> arg, kind |-> r.kind, val |-> r.val]
NoCall == [op |-> "", arg |-> "", kind |-> "", val |-> ""]

\* outcome of running a git command: it fails with GitCommandError or prints
GitOk(out) == [error |-> FALSE, out |-> out]
GitError == [error |-> TRUE, out |-> ""]
ErrorOf(res) == IF res.error THEN "GitCommandError" ELSE ""

get_staged_changes(res) ==
    IF res.error THEN ""
    ELSE IF res.out = "" THEN "" ELSE res.out

get_unstaged_changes(res) ==
    IF res.error THEN ""
    ELSE IF res.out = "" THEN "" ELSE res.out

\* get_all_changes joining the two diffs with a space
get_all_changes_space(s, u) ==
    IF s # "" /\ u # "" THEN s \o " " \o u
    ELSE IF s # "" THEN s ELSE u

get_all_changes(s, u) ==
    IF s # "" /\ u # "" THEN s \o "\n\n" \o u
    ELSE IF s # "" THEN s ELSE u

\* open(full_path, 'r', encoding='utf-8') on a file that is readable text,
\* absent, or not decodable
FileStates == {"text", "missing", "binary"}
FileText == "print(1)\n"

\* get_file_content handing back "" for an undecodable file
get_file_content_empty(file_state) ==
    IF file_state = "missing" THEN ReturnedNone
    ELSE IF file_state = "binary" THEN Returned("")
    ELSE Returned(FileText)

get_file_content(file_state) ==
    IF file_state = "missing" THEN ReturnedNone
    ELSE IF file_state = "binary" THEN ReturnedNone
    ELSE Returned(FileText)

\* Repo(self.repo_path, search_parent_directories=True) and its handler
load_repository(inside_repo) ==
    IF inside_repo THEN ReturnedNone
    ELSE Raised("InvalidGitRepositoryError")

----------------------------------------------------------------------------
(* Inputs *)

RECURSIVE join(_, _)
join(parts, sep) ==
    IF parts = <<>> THEN ""
    ELSE IF Len(parts) = 1 THEN parts[1]
    ELSE parts[1] \o sep \o join(Tail(parts), sep)

SeqsUpTo(S, n) == UNION {[1..k -> S] : k \in 0..n}

\* the header line git prints for a file whose path is p
Header(p) == "diff --git a/" \o p \o " b/" \o p

\* paths of changed files; the last one is a file "y" in a directory "x b"
Paths == {"x", "y", "x b/y"}

HeaderLines == {Header(p) : p \in Paths}

MarkerOld == "--- a/R"
MarkerNew == "+++ b/R"
Hunk == "@@ -1 +1 @@"
AddLine == "+ n "
DelLine == "-\to"
ContextLine == " see a/x b/y"
BlankLine == ""
EmptyHeader == "diff --git a/ b/"

LinePool == HeaderLines \cup {EmptyHeader, MarkerOld, MarkerNew, Hunk,
                              AddLine, DelLine, ContextLine, BlankLine}

\* one section with more than nine added lines
LongDiff == join(<<Header("x")>> \o [i \in 1..12 |-> AddLine], "\n")

InputTexts == {join(ls, "\n") : ls \in SeqsUpTo(LinePool, MaxLines)}
              \cup {LongDiff}

\* file sections as `git diff` prints them
SectionPool ==
    { join(<<Header("x"), "--- a/x", "+++ b/x", Hunk, DelLine, AddLine>>, "\n"),
      join(<<Header("y"), "old mode 100644", "new mode 100755">>, "\n") }

GitOutputs == {join(ss, "\n") : ss \in SeqsUpTo(SectionPool, MaxSections)}

----------------------------------------------------------------------------
(* The parser on its own: Spec *)

Init ==
    /\ diff_text \in InputTexts
    /\ parsed_files = <<>>
    /\ summary = ""
    /\ called = {}
    /\ git_staged = ""
    /\ git_unstaged = ""
    /\ is_repo = TRUE
    /\ repo = "None"
    /\ staged = ""
    /\ unstaged = ""
    /\ ret = NoCall

ParseDiff ==
    /\ "parse_diff" \notin called
    /\ parsed_files' = parse_diff(diff_text)
    /\ called' = called \cup {"parse_diff"}
    /\ UNCHANGED <<diff_text, summary>>
    /\ UNCHANGED git_vars

GetSummary ==
    /\ "get_summary" \notin called
    /\ summary' = get_summary(diff_text)
    /\ called' = called \cup {"get_summary"}
    /\ UNCHANGED <<diff_text, parsed_files>>
    /\ UNCHANGED git_vars

Next == ParseDiff \/ GetSummary

Spec == Init /\ [][Next]_vars

----------------------------------------------------------------------------
(* The change source feeding the parser: SpecGit *)

InitGit ==
    /\ diff_text = ""
    /\ parsed_files = <<>>
    /\ summary = ""
    /\ called = {}
    /\ git_staged \in GitOutputs
    /\ git_unstaged \in GitOutputs
    /\ is_repo \in BOOLEAN
    /\ repo = "None"
    /\ staged = ""
    /\ unstaged = ""
    /\ ret = NoCall

\* GitHandler(repo_path): __init__ and _load_repository
LoadRepository ==
    /\ repo = "None"
    /\ ret = NoCall
    /\ ret' = Outcome("__init__", "", load_repository(is_repo))
    /\ repo' = IF ret'.kind = "raise" THEN "None" ELSE "Repo"
    /\ UNCHANGED <<git_staged, git_unstaged, is_repo, staged, unstaged>>
    /\ UNCHANGED parser_vars

\* the caller receives a diff text: whatever was parsed before is stale
Receive(text) ==
    /\ diff_text' = text
    /\ parsed_files' = <<>>
    /\ summary' = ""
    /\ called' = {}

GetStagedChanges ==
    /\ repo = "Repo"
    /\ \E res \in {GitOk(git_staged), GitError} :
          /\ ret' = Outcome("get_staged_changes", ErrorOf(res),
                            Returned(get_staged_changes(res)))
          /\ Receive(get_staged_changes(res))
    /\ UNCHANGED <<git_staged, git_unstaged, is_repo, repo, staged, unstaged>>

GetUnstagedChanges ==
    /\ repo = "Repo"
    /\ \E res \in {GitOk(git_unstaged), GitError} :
          /\ ret' = Outcome("get_unstaged_changes", ErrorOf(res),
                            Returned(get_unstaged_changes(res)))
          /\ Receive(get_unstaged_changes(res))
    /\ UNCHANGED <<git_staged, git_unstaged, is_repo, repo, staged, unstaged>>

GetAllChanges ==
    /\ repo = "Repo"
    /\ \E res1 \in {GitOk(git_staged), GitError},
          res2 \in {GitOk(git_unstaged), GitError} :
          /\ staged' = get_staged_changes(res1)
          /\ unstaged' = get_unstaged_changes(res2)
          /\ ret' = Outcome("get_all_changes", "",
                            Returned(get_all_changes(staged', unstaged')))
          /\ Receive(get_all_changes(staged', unstaged'))
    /\ UNCHANGED <<git_staged, git_unstaged, is_repo, repo>>

GetFileContent ==
    /\ repo = "Repo"
    /\ \E f \in FileStates :
          ret' = Outcome("get_file_content", f, get_file_content(f))
    /\ UNCHANGED <<git_staged, git_unstaged, is_repo, repo, staged, unstaged>>
    /\ UNCHANGED parser_vars

NextGit ==
    \/ LoadRepository
    \/ GetStagedChanges
    \/ GetUnstagedChanges
    \/ GetAllChanges
    \/ GetFileContent
    \/ ParseDiff
    \/ GetSummary

SpecGit == InitGit /\ [][NextGit]_vars

----------------------------------------------------------------------------
(* What the properties below talk about *)

Parsed == "parse_diff" \in called
Summarized == "get_summary" \in called

SectionMarker == "\ndiff --git"

\* the candidate sections of the input and its physical lines
Sections(text) == split(text, SectionMarker)
LinesOf(text) == split(text, "\n")

Prefix(line, n) == SubSeq(line, 1, IF Len(line) < n THEN Len(line) ELSE n)
DropFirst(line) == SubSeq(line, 2, Len(line))

\* the sections a record is emitted for, in input order
HasPath(section) == extract_file_path(section) # ""

RECURSIVE WithPath(_)
WithPath(secs) ==
    IF secs = <<>> THEN <<>>
    ELSE (IF HasPath(secs[1]) THEN <<secs[1]>> ELSE <<>>) \o WithPath(Tail(secs))

EmittedSections(text) == WithPath(Sections(text))

\* the class the line-classification policy gives a line
LineClass(line) ==
    CASE Prefix(line, 3) \in {"+++", "---"} -> "ignored"
      [] Prefix(line, 2) = "@@" -> "ignored"
      [] Prefix(line, 1) = "+" -> "addition"
      [] Prefix(line, 1) = "-" -> "deletion"
      [] OTHER -> "ignored"

RECURSIVE EntriesOf(_, _)
EntriesOf(lines, class) ==
    IF lines = <<>> THEN <<>>
    ELSE (IF LineClass(lines[1]) = class
          THEN <<strip(DropFirst(lines[1]))>> ELSE <<>>)
         \o EntriesOf(Tail(lines), class)

\* value of a canonical decimal numeral, -1 for anything else
DigitValue(c) == CHOOSE d \in 0..9 : SubSeq("0123456789", d + 1, d + 1) = c
IsDigit(c) == Len(c) = 1 /\ find("0123456789", c) # 0
RECURSIVE DecimalValue(_)
DecimalValue(numeral) ==
    IF numeral = "" \/ \E i \in 1..Len(numeral) : ~IsDigit(Ch(numeral, i)) THEN -1
    ELSE IF Len(numeral) > 1 /\ Ch(numeral, 1) = "0" THEN -1
    ELSE IF Len(numeral) = 1 THEN DigitValue(numeral)
    ELSE 10 * DecimalValue(SubSeq(numeral, 1, Len(numeral) - 1))
         + DigitValue(Ch(numeral, Len(numeral)))

\* text between two literal pieces of a formatted string ("" bounds = ends)
Between(text, before, after) ==
    LET b == IF before = "" THEN 1 ELSE find(text, before)
        from == IF before = "" THEN 1 ELSE b + Len(before)
        rest == SubSeq(text, from, Len(text))
        a == IF after = "" THEN Len(rest) + 1 ELSE find(rest, after)
    IN  IF b = 0 \/ a = 0 THEN "?" ELSE SubSeq(rest, 1, a - 1)

Total(parsed, f) ==
    LET RECURSIVE upto(_)
        upto(i) == IF i = 0 THEN 0 ELSE upto(i - 1) + parsed[i][f]
    IN  upto(Len(parsed))

----------------------------------------------------------------------------
C3_Counts ==
    Parsed =>
        \A i \in 1..Len(parsed_files) :
            LET r == parsed_files[i]
            IN  /\ r.addition_count = Len(r.additions)
                /\ r.deletion_count = Len(r.deletions)
                /\ Prefix(r.change_summary, 1) = "+"
                /\ DecimalValue(Between(r.change_summary, "+", ", -")) = r.addition_count
                /\ DecimalValue(Between(r.change_summary, ", -", "")) = r.deletion_count

\* a record with a two-digit count
C3_Witness ==
    /\ Parsed
    /\ Len(parsed_files) = 1
    /\ parsed_files[1].addition_count = 12
    /\ parsed_files[1].change_summary = "+12, -0"

(* C4: get_summary returns "No changes detected" exactly when parse_diff   *)
(* of the same text is empty (empty and whitespace-only text included);    *)
(* otherwise "{N} file(s) changed: {A} addition(s), {D} deletion(s)" with  *)
(* N the number of records and A, D the sums of their counts.              *)
C4_Summary ==
    /\ Summarized /\ (\A i \in 1..Len(diff_text) : Ch(diff_text, i) \in Whitespace)
          => summary = "No changes detected"
    /\ Parsed /\ Summarized =>
          /\ (summary = "No changes detected") <=> (parsed_files = <<>>)
          /\ parsed_files # <<>> =>
                /\ DecimalValue(Between(summary, "", " file(s) changed: "))
                      = Len(parsed_files)
                /\ DecimalValue(Between(summary, " file(s) changed: ", " addition(s), "))
                      = Total(parsed_files, "addition_count")
                /\ DecimalValue(Between(summary, " addition(s), ", " deletion(s)"))
                      = Total(parsed_files, "deletion_count")
                /\ Between(summary, " deletion(s)", "") = ""

\* a summary over two records, one of them with an addition
C4_Witness ==
    /\ Parsed /\ Summarized
    /\ Len(parsed_files) = 2
    /\ summary = "2 file(s) changed: 1 addition(s), 0 deletion(s)"

(* C5: a record is emitted for a candidate section exactly when a          *)
(* non-empty path is extracted from it, whatever its change lines: a       *)
(* section with a path and no "+"/"-" body line gives a record with empty  *)
(* additions and deletions, counts 0 and summary "+0, -0"; no record has   *)
(* an empty file_path.                                                     *)
NoChangeLines(section) ==
    \A k \in 1..Len(LinesOf(section)) :
        LineClass(LinesOf(section)[k]) = "ignored"

C5_Emission ==
    Parsed =>
        LET secs == Sections(diff_text)
            \* number of sections up to the i-th with a non-empty path
            RECURSIVE rank(_)
            rank(i) == IF i = 0 THEN 0
                       ELSE rank(i - 1) + (IF HasPath(secs[i]) THEN 1 ELSE 0)
        IN  /\ Len(parsed_files) = rank(Len(secs))
            /\ \A i \in 1..Len(secs) :
                  HasPath(secs[i]) =>
                      LET r == parsed_files[rank(i)]
                      IN  /\ r.file_path = extract_file_path(secs[i])
                          /\ NoChangeLines(secs[i]) =>
                                /\ r.additions = <<>> /\ r.deletions = <<>>
                                /\ r.addition_count = 0 /\ r.deletion_count = 0
                                /\ r.change_summary = "+0, -0"
            /\ \A k \in 1..Len(parsed_files) : parsed_files[k].file_path # ""

\* a section with only a header is emitted next to a section that is dropped
C5_Witness ==
    /\ Parsed
    /\ diff_text = join(<<AddLine, Header("y"), Hunk>>, "\n")
    /\ Len(parsed_files) = 1
    /\ parsed_files[1].file_path = "y"
    /\ parsed_files[1].change_summary = "+0, -0"

----------------------------------------------------------------------------
(* Shapes of input lines *)

IsHeaderLine(line) == line \in HeaderLines
StartsSection(line) == startswith(line, "diff --git")

\* a marker line "+++ b/<non-empty path>"
IsNewMarker(line) ==
    startswith(line, "+++ b/") /\ strip(SubSeq(line, 7, Len(line))) # ""

\* what may follow the header inside a file section
IsBodyLine(line) ==
    \/ line = ""
    \/ startswith(line, "--- a/") \/ startswith(line, "+++ b/")
    \/ startswith(line, "@@")
    \/ Prefix(line, 1) \in {"+", "-", " "}

HasLine(text, Test(_)) ==
    \E k \in 1..Len(LinesOf(text)) : Test(LinesOf(text)[k])

(* C2: the path is extracted by (a) "a/<path>" whitespace "b/", else (b) a *)
(* line beginning "+++ b/"; it is empty, and the section dropped, only     *)
(* when both fail, so a section with a line "+++ b/<non-empty path>" is    *)
(* never dropped.                                                          *)
C2_MarkerSectionKept ==
    Parsed =>
        LET secs == Sections(diff_text)
            marked == {i \in 1..Len(secs) : HasLine(secs[i], IsNewMarker)}
        IN  /\ Len(parsed_files) >= Cardinality(marked)
            /\ \A i \in marked : extract_file_path(secs[i]) # ""

(* C6: a section without a "diff --git a/<path> b/<path>" header line that *)
(* contains a line "+++ b/<P>" among hunk headers and "+", "-" or context  *)
(* lines gives a record whose file_path is P, whatever the body lines say. *)
C6_MarkerPath ==
    LET lines == LinesOf(diff_text)
        markers == {k \in 1..Len(lines) : IsNewMarker(lines[k])}
    IN  /\ Parsed
        /\ \A k \in 1..Len(lines) : IsBodyLine(lines[k]) /\ ~StartsSection(lines[k])
        /\ markers # {}
        => /\ Len(parsed_files) = 1
           /\ parsed_files[1].file_path = SubSeq(lines[Min(markers)], 7,
                                                 Len(lines[Min(markers)]))

(* C7: k sections, each beginning with its own header line                 *)
(* "diff --git a/<p_i> b/<p_i>", give exactly k records in input order,    *)
(* the i-th with file_path p_i and the additions and deletions of the      *)
(* i-th section only.                                                      *)
PathOfHeader(line) == CHOOSE p \in Paths : line = Header(p)

RECURSIVE BodyAfter(_, _)
BodyAfter(lines, k) ==
    IF k > Len(lines) \/ IsHeaderLine(lines[k]) THEN <<>>
    ELSE <<lines[k]>> \o BodyAfter(lines, k + 1)

C7_SectionsInOrder ==
    LET lines == LinesOf(diff_text)
        heads == {k \in 1..Len(lines) : IsHeaderLine(lines[k])}
        \* position of the i-th header line
        RECURSIVE nth(_)
        nth(i) == IF i = 1 THEN Min(heads)
                  ELSE Min({k \in heads : k > nth(i - 1)})
    IN  /\ Parsed
        /\ lines # <<>> /\ IsHeaderLine(lines[1])
        /\ \A k \in 1..Len(lines) : IsHeaderLine(lines[k]) \/ IsBodyLine(lines[k])
        => /\ Len(parsed_files) = Cardinality(heads)
           /\ \A i \in 1..Cardinality(heads) :
                 /\ parsed_files[i].file_path = PathOfHeader(lines[nth(i)])
                 /\ parsed_files[i].additions
                       = EntriesOf(BodyAfter(lines, nth(i) + 1), "addition")
                 /\ parsed_files[i].deletions
                       = EntriesOf(BodyAfter(lines, nth(i) + 1), "deletion")

(* C8: text without a "diff --git" header line and without a "+++ b/"      *)
(* marker line parses to zero records.                                     *)
IsAnyNewMarker(line) == startswith(line, "+++ b/")

C8_NoMarkupNoRecords ==
    /\ Parsed
    /\ ~HasLine(diff_text, StartsSection)
    /\ ~HasLine(diff_text, IsAnyNewMarker)
    => parsed_files = <<>>

----------------------------------------------------------------------------
(* Properties of the change source, under SpecGit *)

EmptyString(r) == r.kind = "str" /\ r.val = ""

\* what the four listed operations hand back on a recoverable condition,
\* given what get_file_content is to hand back for an unreadable file
Degrades(unreadable(_)) ==
    /\ ret.op \in {"get_staged_changes", "get_unstaged_changes"}
          /\ ret.arg = "GitCommandError" => EmptyString(ret)
    /\ ret.op = "get_all_changes" /\ staged = "" /\ unstaged = ""
          => EmptyString(ret)
    /\ ret.op = "get_file_content" /\ ret.arg \in {"missing", "binary"}
          => unreadable(ret)
    /\ ret.kind = "raise" =>
          /\ ret.op = "__init__" /\ ~is_repo
          /\ ret.val = "InvalidGitRepositoryError"
    /\ ~is_repo /\ ret # NoCall => ret.kind = "raise" /\ repo = "None"

IsNone(r) == r.kind = "None"

(* C9 as stated: get_staged_changes and get_unstaged_changes return ""     *)
(* when the git command fails, get_all_changes returns "" when both are    *)
(* empty, get_file_content returns an empty string (or list) for a missing *)
(* or undecodable file, and only "not a repository" is raised, at          *)
(* construction.                                                           *)
C9_DegradesToEmpty == Degrades(EmptyString)

(* C9 amended: the same, except that get_file_content returns None for a   *)
(* missing or undecodable file.                                            *)
C9_DegradesToEmptyOrNone == Degrades(IsNone)

\* get_file_content has run on an undecodable file
C9_Witness ==
    /\ repo = "Repo"
    /\ ret.op = "get_file_content"
    /\ ret.arg = "binary"

(* C10: get_all_changes returns staged, two newlines, unstaged when both   *)
(* are non-empty and otherwise the non-empty one; parsing it gives the     *)
(* records of parse_diff(staged) followed by those of                      *)
(* parse_diff(unstaged), so a file in both gives two records and           *)
(* get_summary counts it twice.                                            *)
StartsWithHeader(text) == text = "" \/ startswith(text, "diff --git a/")

C10_ParseOfCombined ==
    ret.op = "get_all_changes" /\ StartsWithHeader(staged) /\ StartsWithHeader(unstaged)
    => LET parts == parse_diff(staged) \o parse_diff(unstaged)
       IN  /\ staged # "" /\ unstaged # ""
                => ret.val = staged \o "\n\n" \o unstaged
           /\ staged = "" => ret.val = unstaged
           /\ unstaged = "" => ret.val = staged
           /\ diff_text = ret.val
           /\ Parsed => parsed_files = parts
           /\ Summarized /\ parts # <<>> =>
                 DecimalValue(Between(summary, "", " file(s) changed: "))
                     = Len(parse_diff(staged)) + Len(parse_diff(unstaged))

\* the same file staged and unstaged: two records with one path, counted twice
C10_Witness ==
    /\ ret.op = "get_all_changes"
    /\ staged # "" /\ staged = unstaged
    /\ Parsed /\ Summarized
    /\ Len(parsed_files) = 2
    /\ parsed_files[1].file_path = parsed_files[2].file_path
    /\ Between(summary, "", " file(s) changed: ") = "2"

====
